---- MODULE Spec2Model ----
(***************************************************************************)
(* Instrument-control helpers of the Python course, Lesson 5:              *)
(*   k2400_setup / k2400_iv_sweep       (src/Lesson5.ipynb)                *)
(*   k2614B_setup / k2614B_iv_sweep     (src/unnamed/part_000)             *)
(* Each helper talks to one module-level pyvisa session through blocking   *)
(* write / query calls.  One step of the model is one such call together   *)
(* with the Python statements that follow it up to the next call.          *)
(*                                                                         *)
(* Numbers are scaled to integers: voltages in microvolts, currents in     *)
(* microamperes, ranges and delays in tenths of their unit.  Text is a     *)
(* sequence of one-character strings; str() and float() are modelled on    *)
(* that text, and a command is its literal prefix plus its formatted       *)
(* argument.                                                               *)
(***************************************************************************)
EXTENDS Integers, Sequences, FiniteSets, TLC

VARIABLES
    dev,        \* which notebook runs: "k2400" or "k2614B"
    resources,  \* what rm.list_resources() returns
    session,    \* the module-level session variable: "undefined" or an address
    openExc,    \* the exception of the open_resource cell, "none" if none
    inst,       \* the state of the instrument behind the session
    call,       \* the helper last called: "none", "setup" or "sweep"
    status,     \* of that call: "idle", "running", "returned", "raised"
    pc,         \* the statement the running call executes next
    step,       \* setup: the write it is at; sweep: the set-point it is at
    args,       \* the parameters of the setup call
    v_sweep,    \* the parameter of the sweep call
    currents,   \* the local list of the sweep call
    data,       \* the text of the last query response, NoData if none
    stub,       \* every response of the call was the instrument's reading
    applied,    \* the source level in force at each measurement appended
    log,        \* the commands handed to write/query during the call
    exc,        \* the exception the call raised, "none" if none
    ret,        \* the value the call returned: a sequence, or None
    main,       \* the main cell: "none" when the helpers are called one by
                \* one, else the statement it is at, "setup" or "sweep"
    kept,       \* the list an earlier sweep returned, as the caller holds
                \* it; None if the caller holds none
    shared,     \* the local list of the running sweep is that same object
    conc,       \* the sweeps running in threads, NoConc if none
    side        \* the two notebooks run side by side, NoSide if not

vars == <<dev, resources, session, openExc, inst, call, status, pc, step, args,
          v_sweep, currents, data, stub, applied, log, exc, ret, main, kept,
          shared, conc, side>>

----------------------------------------------------------------------------
(* Bounds of the model *)

\* longest sweep drawn from SweepVoltages
MaxLen == 2

Devices == {"k2400", "k2614B"}

\* set-points, in microvolts
SweepVoltages == {-500000, 1000000}

\* the sweep of the example scenario: -1.0, -0.5, 0.0, 0.5, 1.0 V
ExampleSweep == <<-1000000, -500000, 0, 500000, 1000000>>

\* its expected result: -0.001, -0.0005, 0.0, 0.0005, 0.001 A
ExampleResult == <<-1000, -500, 0, 500, 1000>>

SeqsUpTo(S, n) == UNION {[1..k -> S] : k \in 0..n}

SweepInputs == SeqsUpTo(SweepVoltages, MaxLen) \cup {ExampleSweep}

\* source modes the notebooks pass: 'VOLT' and 'DCVOLTS'
SourceModes == {"VOLT", "DCVOLTS"}

\* measurement modes: 'DCAMPS' is what the notebook passes
MeasureModes == {"DCAMPS", "DCVOLTS"}

\* ranges and delays, in tenths: v_range 2 and 3, i_range 0.1 and 0.2,
\* delay 0 and 1
VRanges == {20, 30}
IRanges == {1, 2}
Delays == {0, 10}

\* Python's None where a list may stand (a return value, a kept result): a
\* value that is no sequence, so it differs from every list, the empty
\* list included
None == [j \in {0} |-> "None"]

\* the place of a parameter the helper does not have, or was not given
NoParam == "None"
NoData == <<"<no response>">>

----------------------------------------------------------------------------
(* str() and float() on text *)

DigitChar == <<"0", "1", "2", "3", "4", "5", "6", "7", "8", "9">>

IsDigit(c) == \E d \in 1..10 : DigitChar[d] = c

DigitVal(c) == (CHOOSE d \in 1..10 : DigitChar[d] = c) - 1

RECURSIVE Digits(_)
Digits(n) ==
    IF n < 10 THEN <<DigitChar[n + 1]>>
    ELSE Digits(n \div 10) \o <<DigitChar[(n % 10) + 1]>>

\* str(x) of a number
Str(n) == IF n < 0 THEN <<"-">> \o Digits(0 - n) ELSE Digits(n)

IsSpace(c) == c \in {" ", "\n", "\t", "\r"}

RECURSIVE LStrip(_)
LStrip(t) ==
    IF t # <<>> /\ IsSpace(Head(t)) THEN LStrip(Tail(t)) ELSE t

RECURSIVE RStrip(_)
RStrip(t) ==
    IF t # <<>> /\ IsSpace(t[Len(t)]) THEN RStrip(SubSeq(t, 1, Len(t) - 1))
    ELSE t

Strip(t) == RStrip(LStrip(t))

Unsigned(t) == IF t # <<>> /\ Head(t) \in {"-", "+"} THEN Tail(t) ELSE t

\* float(t) succeeds: optional blanks, optional sign, digits
IsNumeric(t) ==
    LET u == Unsigned(Strip(t))
    IN  /\ u # <<>>
        /\ \A k \in 1..Len(u) : IsDigit(u[k])

RECURSIVE Magnitude(_)
Magnitude(u) ==
    IF u = <<>> THEN 0
    ELSE 10 * Magnitude(SubSeq(u, 1, Len(u) - 1)) + DigitVal(u[Len(u)])

\* float(t), for numeric t
Float(t) ==
    LET s == Strip(t)
    IN  IF s # <<>> /\ Head(s) = "-" THEN 0 - Magnitude(Unsigned(s))
        ELSE Magnitude(Unsigned(s))

\* t.split(',')
RECURSIVE Split(_)
Split(t) ==
    IF \A k \in 1..Len(t) : t[k] # "," THEN <<t>>
    ELSE LET k == CHOOSE j \in 1..Len(t) :
                      /\ t[j] = ","
                      /\ \A m \in 1..(j - 1) : t[m] # ","
         IN  <<SubSeq(t, 1, k - 1)>> \o Split(SubSeq(t, k + 1, Len(t)))

----------------------------------------------------------------------------
(* Commands *)

Cmd(prefix, arg) == [text |-> prefix, arg |-> arg]

OutputOff == {"OUTP OFF", "smua.source.output = smua.OUTPUT_OFF"}
OutputOn == {"smua.source.output = smua.OUTPUT_ON"}
AutoClearOff == {":SOUR:CLE:AUTO OFF"}
SourceFunc == {":SOUR:FUNC ", "smua.source.func = smua.OUTPUT_"}
DisplayFunc == {"display.smua.measure.func = display.MEASURE_"}
RangeV == {":SOUR:VOLT:RANG ", "smua.measure.rangev = "}
RangeI == {":SOUR:CURR:RANG ", "smua.measure.rangei = "}
Delay == {":SOUR:DEL ", "smua.measure.delay = "}
SourceLevel == {":SOUR:VOLT ", "smua.source.levelv = "}
MeasureI == {":MEAS:CURR?", "print(smua.measure.i())"}

\* k2400_setup with the source-function write moved before the auto-clear
\* write
k2400_setup_Reordered(func, v_range, i_range, delay) ==
    << Cmd("OUTP OFF", <<>>),
       Cmd(":SOUR:FUNC ", <<func>>),
       Cmd(":SOUR:CLE:AUTO OFF", <<>>),
       Cmd(":SOUR:VOLT:RANG ", Str(v_range)),
       Cmd(":SOUR:CURR:RANG ", Str(i_range)),
       Cmd(":SOUR:DEL ", Str(delay)) >>

\* the six writes of k2400_setup, in program order
k2400_setup(func, v_range, i_range, delay) ==
    << Cmd("OUTP OFF", <<>>),
       Cmd(":SOUR:CLE:AUTO OFF", <<>>),
       Cmd(":SOUR:FUNC ", <<func>>),
       Cmd(":SOUR:VOLT:RANG ", Str(v_range)),
       Cmd(":SOUR:CURR:RANG ", Str(i_range)),
       Cmd(":SOUR:DEL ", Str(delay)) >>

\* k2614B_setup with the output switched off last instead of first
k2614B_setup_OffLast(sfunc, mfunc, v_range, i_range, delay) ==
    << Cmd("smua.source.func = smua.OUTPUT_", <<sfunc>>),
       Cmd("display.smua.measure.func = display.MEASURE_", <<"DCAMPS">>),
       Cmd("smua.measure.rangev = ", Str(v_range)),
       Cmd("smua.measure.rangei = ", Str(i_range)),
       Cmd("smua.measure.delay = ", Str(delay)),
       Cmd("smua.source.output = smua.OUTPUT_OFF", <<>>) >>

\* the six writes of k2614B_setup, in program order.  The third command is
\* a literal of the code, split here after MEASURE_ so that the mode it names
\* is readable as its argument; the parameter mfunc is not used.
k2614B_setup(sfunc, mfunc, v_range, i_range, delay) ==
    << Cmd("smua.source.output = smua.OUTPUT_OFF", <<>>),
       Cmd("smua.source.func = smua.OUTPUT_", <<sfunc>>),
       Cmd("display.smua.measure.func = display.MEASURE_", <<"DCAMPS">>),
       Cmd("smua.measure.rangev = ", Str(v_range)),
       Cmd("smua.measure.rangei = ", Str(i_range)),
       Cmd("smua.measure.delay = ", Str(delay)) >>

\* the command of the first statement of k2614B_iv_sweep
k2614B_enable == Cmd("smua.source.output = smua.OUTPUT_ON", <<>>)

\* a loop body that writes the set-point to the voltage range
k2400_level_AsRange(voltage) == Cmd(":SOUR:VOLT:RANG ", Str(voltage))

\* the source-level write of the loop body
k2400_level(voltage) == Cmd(":SOUR:VOLT ", Str(voltage))
k2614B_level(voltage) == Cmd("smua.source.levelv = ", Str(voltage))

\* the measurement query of the loop body
k2400_measure == Cmd(":MEAS:CURR?", <<>>)
k2614B_measure == Cmd("print(smua.measure.i())", <<>>)

\* a write after the loop that zeroes the source level and leaves the
\* output as it is
k2400_disable_AsLevel == Cmd(":SOUR:VOLT ", Str(0))

\* a write after the loop that repeats the enable command
k2614B_disable_AsEnable == Cmd("smua.source.output = smua.OUTPUT_ON", <<>>)

\* the write after the loop
k2400_disable == Cmd("OUTP OFF", <<>>)
k2614B_disable == Cmd("smua.source.output = smua.OUTPUT_OFF", <<>>)

SetupCommands(d, a) ==
    IF d = "k2400"
    THEN k2400_setup(a.sfunc, a.v_range, a.i_range, a.delay)
    ELSE k2614B_setup(a.sfunc, a.mfunc, a.v_range, a.i_range, a.delay)

LevelCommand(d, voltage) ==
    IF d = "k2400" THEN k2400_level(voltage) ELSE k2614B_level(voltage)

MeasureCommand(d) == IF d = "k2400" THEN k2400_measure ELSE k2614B_measure

DisableCommand(d) == IF d = "k2400" THEN k2400_disable ELSE k2614B_disable

----------------------------------------------------------------------------
(* The instrument behind the session *)

Unset == <<"?">>

InitInst ==
    [output |-> "OFF", level |-> 0, autoclear |-> "ON", func |-> Unset,
     display |-> Unset, rangev |-> Unset, rangei |-> Unset, delay |-> Unset]

\* an instrument left with source auto-clear on: every measurement ends
\* with the output switched off
Apply_AutoClear(i, c) ==
    CASE c.text \in OutputOff    -> [i EXCEPT !.output = "OFF"]
      [] c.text \in OutputOn     -> [i EXCEPT !.output = "ON"]
      [] c.text \in AutoClearOff -> [i EXCEPT !.autoclear = "OFF"]
      [] c.text \in SourceFunc   -> [i EXCEPT !.func = c.arg]
      [] c.text \in DisplayFunc  -> [i EXCEPT !.display = c.arg]
      [] c.text \in RangeV       -> [i EXCEPT !.rangev = c.arg]
      [] c.text \in RangeI       -> [i EXCEPT !.rangei = c.arg]
      [] c.text \in Delay        -> [i EXCEPT !.delay = c.arg]
      [] c.text \in SourceLevel  -> [i EXCEPT !.level = Float(c.arg)]
      [] c.text \in MeasureI     -> [i EXCEPT !.output = "OFF"]
      [] OTHER                   -> i

\* the instrument after it has received command c
Apply(i, c) ==
    CASE c.text \in OutputOff    -> [i EXCEPT !.output = "OFF"]
      [] c.text \in OutputOn     -> [i EXCEPT !.output = "ON"]
      [] c.text \in AutoClearOff -> [i EXCEPT !.autoclear = "OFF"]
      [] c.text \in SourceFunc   -> [i EXCEPT !.func = c.arg]
      [] c.text \in DisplayFunc  -> [i EXCEPT !.display = c.arg]
      [] c.text \in RangeV       -> [i EXCEPT !.rangev = c.arg]
      [] c.text \in RangeI       -> [i EXCEPT !.rangei = c.arg]
      [] c.text \in Delay        -> [i EXCEPT !.delay = c.arg]
      [] c.text \in SourceLevel  -> [i EXCEPT !.level = Float(c.arg)]
      \* a one-shot :MEAS? of the 2400 turns its source on, and with
      \* auto-clear off the source stays on after the measurement
      [] c.text = ":MEAS:CURR?"  -> [i EXCEPT !.output = "ON"]
      [] OTHER                   -> i

\* the current through a 1 kOhm resistor at the applied source level,
\* microamperes from microvolts
Current(i) == i.level \div 1000

\* the text an instrument in state i answers to the measurement query:
\* the 2400 a comma-separated reading, voltage then current; the 2614B the
\* bare number it prints; both end in a newline
Reading(d, i) ==
    IF d = "k2400"
    THEN Str(i.level) \o <<",">> \o Str(Current(i)) \o <<"\n">>
    ELSE Str(Current(i)) \o <<"\n">>

\* other texts a connection may deliver in place of the reading
OtherResponses ==
    { <<>>,
      <<"E", "\n">>,
      <<"7", "\n">>,
      <<"7", ",", "8", "\n">>,
      <<"x", ",", "8", "\n">>,
      <<"7", ",", "x", "\n">> }

Responses(d, i) == {Reading(d, i)} \cup OtherResponses

----------------------------------------------------------------------------
(* What the loop body makes of a response *)

\* k2400_iv_sweep taking the first field, data[0], instead of the second
k2400_parse_First(t) ==
    LET fields == Split(t)
    IN  IF \E f \in 1..Len(fields) : ~IsNumeric(fields[f])
        THEN [err |-> "ValueError", value |-> None]
        ELSE [err |-> "none", value |-> Float(fields[1])]

\* k2400_iv_sweep converting only the field it appends, float(data[1])
k2400_parse_SecondOnly(t) ==
    LET fields == Split(t)
    IN  IF Len(fields) < 2
        THEN [err |-> "IndexError", value |-> None]
        ELSE IF ~IsNumeric(fields[2])
        THEN [err |-> "ValueError", value |-> None]
        ELSE [err |-> "none", value |-> Float(fields[2])]

\* k2400_iv_sweep: split at commas, float() every field, take the second
k2400_parse(t) ==
    LET fields == Split(t)
    IN  IF \E f \in 1..Len(fields) : ~IsNumeric(fields[f])
        THEN [err |-> "ValueError", value |-> None]
        ELSE IF Len(fields) < 2
        THEN [err |-> "IndexError", value |-> None]
        ELSE [err |-> "none", value |-> Float(fields[2])]

\* k2614B_iv_sweep catching the conversion error and recording 0
k2614B_parse_Lenient(t) ==
    IF IsNumeric(t) THEN [err |-> "none", value |-> Float(t)]
    ELSE [err |-> "none", value |-> 0]

\* k2614B_iv_sweep: float() of the whole response
k2614B_parse(t) ==
    IF IsNumeric(t) THEN [err |-> "none", value |-> Float(t)]
    ELSE [err |-> "ValueError", value |-> None]

Parse(d, t) == IF d = "k2400" THEN k2400_parse(t) ELSE k2614B_parse(t)

----------------------------------------------------------------------------
(* State machine *)

Addresses == { <<>>, <<"GPIB0::26::INSTR">>, <<"GPIB0::26::INSTR", "GPIB0::27::INSTR">> }

NoArgs == [sfunc |-> NoParam, mfunc |-> NoParam, v_range |-> 0, i_range |-> 0,
           delay |-> 0]

\* k2400_setup has no measurement-mode parameter
SetupArgs(d) ==
    [sfunc : SourceModes,
     mfunc : IF d = "k2400" THEN {NoParam} ELSE MeasureModes,
     v_range : VRanges, i_range : IRanges, delay : Delays]

\* no side-by-side run started: both notebooks idle, instruments new
NoSide ==
    [v_sweep |-> <<>>,
     nb |-> [d \in Devices |->
               [pc |-> "idle", step |-> 0, currents |-> <<>>, log |-> <<>>,
                inst |-> InitInst]]]

\* the two sweep threads before any is started
NoConc == [thr |-> <<>>, overlap |-> FALSE]

Init ==
    /\ dev \in Devices
    /\ resources \in Addresses
    /\ session = "undefined"
    /\ openExc = "none"
    /\ inst = InitInst
    /\ call = "none"
    /\ status = "idle"
    /\ pc = "idle"
    /\ step = 0
    /\ args = NoArgs
    /\ v_sweep = <<>>
    /\ currents = <<>>
    /\ data = NoData
    /\ stub = TRUE
    /\ applied = <<>>
    /\ log = <<>>
    /\ exc = "none"
    /\ ret = None
    /\ main = "none"
    /\ kept = None
    /\ shared = FALSE
    /\ conc = NoConc
    /\ side = NoSide

\* a call is running, or the main cell is between its two calls
Busy ==
    \/ status = "running"
    \/ main = "setup" /\ status = "returned"

\* the last address listed, list_resources()[-1]
FirstAddress_Last(r) == r[Len(r)]

\* rm.list_resources()[0]
FirstAddress(r) == r[1]

\* a session name that is bound whether or not open_resource succeeded
Defined_Always(s) == TRUE

\* the module-level name keithley2400 / keithley2614B is bound; using it
\* unbound raises NameError
Defined(s) == s # "undefined"

\* keithley = rm.open_resource(rm.list_resources()[0])
OpenResource ==
    /\ ~Busy
    /\ UNCHANGED <<main, kept, shared, conc, side>>
    /\ IF resources = <<>>
       THEN /\ openExc' = "IndexError"
            /\ UNCHANGED session
       ELSE /\ openExc' = "none"
            /\ session' = FirstAddress(resources)
    /\ UNCHANGED <<dev, resources, inst, call, status, pc, step, args, v_sweep,
                   currents, data, stub, applied, log, exc, ret>>

\* an exception handler that swallows the error and runs the statement again
Raise_Swallow(e) == UNCHANGED <<status, exc, pc, ret>>

\* an exception handler that hands back what was measured so far
Raise_PartialResult(e) ==
    /\ status' = "raised"
    /\ exc' = e
    /\ pc' = "idle"
    /\ ret' = currents

\* the call leaves with exception e
Raise(e) ==
    /\ status' = "raised"
    /\ exc' = e
    /\ pc' = "idle"
    /\ ret' = None

\* the caller invokes k2400_setup / k2614B_setup
CallSetup ==
    /\ ~Busy
    /\ main' = "none"
    /\ UNCHANGED <<kept, shared, conc, side>>
    /\ \E a \in SetupArgs(dev) : args' = a
    /\ call' = "setup"
    /\ status' = "running"
    /\ pc' = "setup"
    /\ step' = 1
    /\ v_sweep' = <<>>
    /\ currents' = <<>>
    /\ data' = NoData
    /\ stub' = TRUE
    /\ applied' = <<>>
    /\ log' = <<>>
    /\ exc' = "none"
    /\ ret' = None
    /\ UNCHANGED <<dev, resources, session, openExc, inst>>

\* the next write of the setup procedure
SetupWrite ==
    /\ status = "running"
    /\ pc = "setup"
    /\ UNCHANGED <<main, kept, shared, conc, side>>
    /\ LET c == SetupCommands(dev, args)[step]
       IN  \/ /\ ~Defined(session)
              /\ Raise("NameError")
              /\ UNCHANGED <<inst, log, step, call>>
           \/ /\ Defined(session)
              /\ log' = Append(log, c)
              /\ Raise("VisaIOError")
              /\ UNCHANGED <<inst, step, call>>
           \/ /\ Defined(session)
              /\ log' = Append(log, c)
              /\ inst' = Apply(inst, c)
              /\ step' = step + 1
              /\ IF step < Len(SetupCommands(dev, args))
                 THEN UNCHANGED <<status, pc, exc, ret>>
                 ELSE /\ status' = "returned"
                      /\ pc' = "idle"
                      /\ ret' = None
                      /\ UNCHANGED exc
              /\ UNCHANGED call
    /\ UNCHANGED <<dev, resources, session, openExc, args, v_sweep, currents,
                   data, stub, applied>>

\* a list that lives across calls (a module-level list, or a mutable default
\* argument): the call goes on with the object the caller already holds
NewList_Reused(prev) == [items |-> prev, same |-> TRUE]

\* currents = []: a new empty list object at each call, whatever list an
\* earlier call returned
NewList(prev) == [items |-> <<>>, same |-> FALSE]

\* a loop that stops one set-point early
LoopHead_OffByOne(v, i) == IF i < Len(v) THEN "level" ELSE "disable"

\* a loop body that measures without writing the source level
LoopHead_MeasureOnly(v, i) == IF i <= Len(v) THEN "measure" ELSE "disable"

\* for voltage in v_sweep: the body once more while set-points remain,
\* then the statement after the loop
LoopHead(v, i) == IF i <= Len(v) THEN "level" ELSE "disable"

\* a loop that walks the sequence from its end
SetPoint_Reversed(v, i) == v[Len(v) + 1 - i]

\* for voltage in v_sweep: the set-point of the i-th pass
SetPoint(v, i) == v[i]

\* a sweep procedure that starts at its loop on both instruments
SweepEntry_NoEnable(d, v) == LoopHead(v, 1)

\* the first statement of the sweep procedure: k2614B_iv_sweep turns the
\* output on, k2400_iv_sweep goes straight to its loop
SweepEntry(d, v) == IF d = "k2614B" THEN "enable" ELSE LoopHead(v, 1)

\* the caller invokes k2400_iv_sweep / k2614B_iv_sweep
CallSweep ==
    /\ ~Busy
    /\ main' = "none"
    /\ kept' = None
    /\ shared' = FALSE
    /\ UNCHANGED <<conc, side>>
    /\ \E v \in SweepInputs :
          /\ v_sweep' = v
          /\ pc' = SweepEntry(dev, v)
    /\ call' = "sweep"
    /\ status' = "running"
    /\ step' = 1
    /\ args' = NoArgs
    /\ currents' = NewList(<<>>).items
    /\ data' = NoData
    /\ stub' = TRUE
    /\ applied' = <<>>
    /\ log' = <<>>
    /\ exc' = "none"
    /\ ret' = None
    /\ UNCHANGED <<dev, resources, session, openExc, inst>>

\* keithley2614B.write('smua.source.output = smua.OUTPUT_ON'); currents = []
SweepEnable ==
    /\ status = "running"
    /\ pc = "enable"
    /\ UNCHANGED <<main, kept, shared, conc, side>>
    /\ \/ /\ ~Defined(session)
          /\ Raise("NameError")
          /\ UNCHANGED <<inst, log>>
       \/ /\ Defined(session)
          /\ log' = Append(log, k2614B_enable)
          /\ Raise("VisaIOError")
          /\ UNCHANGED inst
       \/ /\ Defined(session)
          /\ log' = Append(log, k2614B_enable)
          /\ inst' = Apply(inst, k2614B_enable)
          /\ pc' = LoopHead(v_sweep, step)
          /\ UNCHANGED <<status, exc, ret>>
    /\ UNCHANGED <<dev, resources, session, openExc, call, step, args, v_sweep,
                   currents, data, stub, applied>>

\* write of the source level for the set-point the loop is at
SweepSetLevel ==
    /\ status = "running"
    /\ pc = "level"
    /\ UNCHANGED <<main, kept, shared, conc, side>>
    /\ LET c == LevelCommand(dev, SetPoint(v_sweep, step))
       IN  \/ /\ ~Defined(session)
              /\ Raise("NameError")
              /\ UNCHANGED <<inst, log>>
           \/ /\ Defined(session)
              /\ log' = Append(log, c)
              /\ Raise("VisaIOError")
              /\ UNCHANGED inst
           \/ /\ Defined(session)
              /\ log' = Append(log, c)
              /\ inst' = Apply(inst, c)
              /\ pc' = "measure"
              /\ UNCHANGED <<status, exc, ret>>
    /\ UNCHANGED <<dev, resources, session, openExc, call, step, args, v_sweep,
                   currents, data, stub, applied>>

\* the measurement query, the conversion of its response and the append.
\* The query is a write followed by a read: either may fail, and a read
\* delivers the instrument's reading or some other text.
SweepMeasure ==
    /\ status = "running"
    /\ pc = "measure"
    /\ LET c == MeasureCommand(dev)
           measured == Apply(inst, c)
       IN  \/ /\ log' = Append(log, c)
              /\ Raise("VisaIOError")
              /\ inst' \in {inst, measured}
              /\ UNCHANGED <<currents, data, stub, applied, step>>
           \/ /\ log' = Append(log, c)
              /\ inst' = measured
              /\ \E r \in Responses(dev, measured) :
                    /\ data' = r
                    /\ stub' = (stub /\ r = Reading(dev, measured))
                    /\ LET p == Parse(dev, r)
                       IN  IF p.err # "none"
                           THEN /\ Raise(p.err)
                                /\ UNCHANGED <<currents, applied, step>>
                           ELSE /\ currents' = Append(currents, p.value)
                                /\ applied' = Append(applied, measured.level)
                                /\ step' = step + 1
                                /\ pc' = LoopHead(v_sweep, step + 1)
                                /\ UNCHANGED <<status, exc, ret>>
    /\ kept' = IF shared THEN currents' ELSE kept
    /\ UNCHANGED <<dev, resources, session, openExc, call, args, v_sweep,
                   main, shared, conc, side>>

\* the write after the loop, and return currents
SweepDisable ==
    /\ status = "running"
    /\ pc = "disable"
    /\ UNCHANGED <<main, kept, shared, conc, side>>
    /\ LET c == DisableCommand(dev)
       IN  \/ /\ ~Defined(session)
              /\ Raise("NameError")
              /\ UNCHANGED <<inst, log>>
           \/ /\ Defined(session)
              /\ log' = Append(log, c)
              /\ Raise("VisaIOError")
              /\ UNCHANGED inst
           \/ /\ Defined(session)
              /\ log' = Append(log, c)
              /\ inst' = Apply(inst, c)
              /\ status' = "returned"
              /\ pc' = "idle"
              /\ ret' = currents
              /\ UNCHANGED exc
    /\ UNCHANGED <<dev, resources, session, openExc, call, step, args, v_sweep,
                   currents, data, stub, applied>>

Next ==
    \/ OpenResource
    \/ CallSetup
    \/ SetupWrite
    \/ CallSweep
    \/ SweepEnable
    \/ SweepSetLevel
    \/ SweepMeasure
    \/ SweepDisable

Spec == Init /\ [][Next]_vars

\* sweep calls alone, on whatever session the open_resource cell left
NextSweep ==
    \/ OpenResource
    \/ CallSweep
    \/ SweepEnable
    \/ SweepSetLevel
    \/ SweepMeasure
    \/ SweepDisable

\* write, query and ask are blocking calls that come back, with a value or
\* with an exception: a running sweep takes its next step, and each step
\* moves the call on (status, pc or step changes)
SpecLive ==
    /\ Init
    /\ [][NextSweep]_vars
    /\ WF_<<status, pc, step>>(SweepEnable)
    /\ WF_<<status, pc, step>>(SweepSetLevel)
    /\ WF_<<status, pc, step>>(SweepMeasure)
    /\ WF_<<status, pc, step>>(SweepDisable)

----------------------------------------------------------------------------
(* Failure-free runs: the same calls and steps, on a connection where no   *)
(* write or query fails and every response converts.                       *)

\* each step of a call, when it raises nothing
OkSetupWrite == SetupWrite /\ status' # "raised"

OkSweepEnable == SweepEnable /\ status' # "raised"

OkSweepSetLevel == SweepSetLevel /\ status' # "raised"

OkSweepMeasure == SweepMeasure /\ status' # "raised"

OkSweepDisable == SweepDisable /\ status' # "raised"

NextOk ==
    \/ OpenResource
    \/ CallSetup
    \/ OkSetupWrite
    \/ CallSweep
    \/ OkSweepEnable
    \/ OkSweepSetLevel
    \/ OkSweepMeasure
    \/ OkSweepDisable

SpecOk == Init /\ [][NextOk]_vars

----------------------------------------------------------------------------
(* Two sweeps one after the other, the caller keeping the first result *)

\* first = k2400_iv_sweep(v1) has returned; the caller keeps the list and
\* calls the helper again
CallSweepAgain ==
    /\ ~Busy
    /\ main = "none"
    /\ call = "sweep"
    /\ status = "returned"
    /\ kept = None
    /\ kept' = ret
    /\ currents' = NewList(ret).items
    /\ shared' = NewList(ret).same
    /\ \E v \in SweepInputs :
          /\ v_sweep' = v
          /\ pc' = SweepEntry(dev, v)
    /\ status' = "running"
    /\ step' = 1
    /\ data' = NoData
    /\ stub' = TRUE
    /\ applied' = <<>>
    /\ log' = <<>>
    /\ exc' = "none"
    /\ ret' = None
    /\ UNCHANGED <<dev, resources, session, openExc, inst, call, args, main,
                   conc, side>>

NextTwo ==
    \/ OpenResource
    \/ CallSweep
    \/ CallSweepAgain
    \/ SweepEnable
    \/ SweepSetLevel
    \/ SweepMeasure
    \/ SweepDisable

SpecTwo == Init /\ [][NextTwo]_vars

----------------------------------------------------------------------------
(* Two sweeps in two threads on the one module-level session.  Each write  *)
(* and each query is one step, as in the single call; nothing fails.  log  *)
(* stays that of the single call.                                          *)

Threads == {1, 2}

Other(t) == 3 - t

\* a thread at the first statement of the sweep helper
Thread(d, v) ==
    [pc |-> SweepEntry(d, v), step |-> 1, v_sweep |-> v,
     currents |-> NewList(<<>>).items, applied |-> <<>>]

\* the thread has issued a command and has not yet returned
Mid(d, r) ==
    /\ r.pc # "done"
    /\ r.pc # SweepEntry(d, r.v_sweep) \/ r.step > 1

\* thread t moves to r while the other thread may be in its sweep
Move(t, r) ==
    [thr |-> [conc.thr EXCEPT ![t] = r],
     overlap |-> conc.overlap \/ Mid(dev, conc.thr[Other(t)])]

\* two threads are started, each with target k2400_iv_sweep /
\* k2614B_iv_sweep and its own v_sweep
ConcStart ==
    /\ ~Busy
    /\ Defined(session)
    /\ \E v1, v2 \in SeqsUpTo(SweepVoltages, MaxLen) :
          conc' = [thr |-> <<Thread(dev, v1), Thread(dev, v2)>>,
                   overlap |-> FALSE]
    /\ call' = "threads"
    /\ status' = "running"
    /\ pc' = "idle"
    /\ step' = 0
    /\ args' = NoArgs
    /\ v_sweep' = <<>>
    /\ currents' = <<>>
    /\ data' = NoData
    /\ stub' = TRUE
    /\ applied' = <<>>
    /\ log' = <<>>
    /\ exc' = "none"
    /\ ret' = None
    /\ main' = "none"
    /\ kept' = None
    /\ shared' = FALSE
    /\ UNCHANGED <<dev, resources, session, openExc, inst, side>>

\* keithley2614B.write('smua.source.output = smua.OUTPUT_ON'), in thread t
ConcEnable ==
    /\ call = "threads"
    /\ \E t \in Threads :
          LET r == conc.thr[t]
          IN  /\ r.pc = "enable"
              /\ inst' = Apply(inst, k2614B_enable)
              /\ conc' = Move(t, [r EXCEPT !.pc = LoopHead(r.v_sweep, 1)])
    /\ UNCHANGED <<dev, resources, session, openExc, call, status, pc, step,
                   args, v_sweep, currents, data, stub, applied, log, exc,
                   ret, main, kept, shared, side>>

\* the write of the set-point, in thread t
ConcSetLevel ==
    /\ call = "threads"
    /\ \E t \in Threads :
          LET r == conc.thr[t]
              c == LevelCommand(dev, SetPoint(r.v_sweep, r.step))
          IN  /\ r.pc = "level"
              /\ inst' = Apply(inst, c)
              /\ conc' = Move(t, [r EXCEPT !.pc = "measure"])
    /\ UNCHANGED <<dev, resources, session, openExc, call, status, pc, step,
                   args, v_sweep, currents, data, stub, applied, log, exc,
                   ret, main, kept, shared, side>>

\* the query, the conversion and the append, in thread t
ConcMeasure ==
    /\ call = "threads"
    /\ \E t \in Threads :
          LET r == conc.thr[t]
              measured == Apply(inst, MeasureCommand(dev))
              p == Parse(dev, Reading(dev, measured))
          IN  /\ r.pc = "measure"
              /\ inst' = measured
              /\ conc' = Move(t,
                    [r EXCEPT !.currents = Append(r.currents, p.value),
                              !.applied = Append(r.applied, measured.level),
                              !.step = r.step + 1,
                              !.pc = LoopHead(r.v_sweep, r.step + 1)])
    /\ UNCHANGED <<dev, resources, session, openExc, call, status, pc, step,
                   args, v_sweep, currents, data, stub, applied, log, exc,
                   ret, main, kept, shared, side>>

\* the write after the loop and the return, in thread t
ConcDisable ==
    /\ call = "threads"
    /\ \E t \in Threads :
          LET r == conc.thr[t]
          IN  /\ r.pc = "disable"
              /\ inst' = Apply(inst, DisableCommand(dev))
              /\ conc' = Move(t, [r EXCEPT !.pc = "done"])
              /\ status' = IF conc.thr[Other(t)].pc = "done"
                            THEN "returned" ELSE status
    /\ UNCHANGED <<dev, resources, session, openExc, call, pc, step, args,
                   v_sweep, currents, data, stub, applied, log, exc, ret,
                   main, kept, shared, side>>

NextConc ==
    \/ OpenResource
    \/ ConcStart
    \/ ConcEnable
    \/ ConcSetLevel
    \/ ConcMeasure
    \/ ConcDisable

SpecConc == Init /\ [][NextConc]_vars

----------------------------------------------------------------------------
(* The two notebooks side by side: k2400_iv_sweep and k2614B_iv_sweep are  *)
(* called with the same v_sweep, each on its own instrument; both          *)
(* instruments answer every query with their reading, so they report the   *)
(* same current for the same applied voltage.  Nothing fails.              *)

\* a notebook at the first statement of its sweep helper
Notebook(d, v, i) ==
    [pc |-> SweepEntry(d, v), step |-> 1, currents |-> NewList(<<>>).items,
     log |-> <<>>, inst |-> i]

\* no helper is running in either notebook
SideIdle == \A d \in Devices : side.nb[d].pc \in {"idle", "done"}

\* both helpers have returned
SideDone == \A d \in Devices : side.nb[d].pc = "done"

\* notebook d has issued command c and goes on as r
SideMove(d, c, r) ==
    [side EXCEPT !.nb[d] = [r EXCEPT !.log = Append(@, c)]]

\* everything but the side-by-side run
single == <<dev, resources, session, openExc, inst, call, status, pc, step,
            args, v_sweep, currents, data, stub, applied, log, exc, ret,
            main, kept, shared, conc>>

\* both sweep helpers are called with the same sequence
SideStart ==
    /\ SideIdle
    /\ \E v \in SweepInputs :
          side' = [v_sweep |-> v,
                   nb |-> [d \in Devices |->
                             Notebook(d, v, side.nb[d].inst)]]
    /\ UNCHANGED single

\* keithley2614B.write('smua.source.output = smua.OUTPUT_ON')
SideEnable ==
    /\ \E d \in Devices :
          LET r == side.nb[d]
              c == k2614B_enable
          IN  /\ r.pc = "enable"
              /\ side' = SideMove(d, c,
                    [r EXCEPT !.inst = Apply(@, c),
                              !.pc = LoopHead(side.v_sweep, 1)])
    /\ UNCHANGED single

\* the write of the set-point
SideSetLevel ==
    /\ \E d \in Devices :
          LET r == side.nb[d]
              c == LevelCommand(d, SetPoint(side.v_sweep, r.step))
          IN  /\ r.pc = "level"
              /\ side' = SideMove(d, c,
                    [r EXCEPT !.inst = Apply(@, c), !.pc = "measure"])
    /\ UNCHANGED single

\* the query, the conversion and the append
SideMeasure ==
    /\ \E d \in Devices :
          LET r == side.nb[d]
              c == MeasureCommand(d)
              measured == Apply(r.inst, c)
              p == Parse(d, Reading(d, measured))
          IN  /\ r.pc = "measure"
              /\ p.err = "none"
              /\ side' = SideMove(d, c,
                    [r EXCEPT !.inst = measured,
                              !.currents = Append(@, p.value),
                              !.step = @ + 1,
                              !.pc = LoopHead(side.v_sweep, r.step + 1)])
    /\ UNCHANGED single

\* the write after the loop, and return currents
SideDisable ==
    /\ \E d \in Devices :
          LET r == side.nb[d]
              c == DisableCommand(d)
          IN  /\ r.pc = "disable"
              /\ side' = SideMove(d, c,
                    [r EXCEPT !.inst = Apply(@, c), !.pc = "done"])
    /\ UNCHANGED single

NextSide ==
    \/ SideStart
    \/ SideEnable
    \/ SideSetLevel
    \/ SideMeasure
    \/ SideDisable

SpecSide == Init /\ [][NextSide]_vars

----------------------------------------------------------------------------
(* The main cell: settings, the setup call, the sweep call *)

\* the settings of the main cell: func = 'VOLT', v_range = 2, i_range = 0.1,
\* delay = 0 (k2400); sfunc = 'DCVOLTS', mfunc = 'DCAMPS', v_range = 3,
\* i_range = 0.2, delay = 1 (k2614B)
MainArgs(d) ==
    IF d = "k2400"
    THEN [sfunc |-> "VOLT", mfunc |-> NoParam,
          v_range |-> 20, i_range |-> 1, delay |-> 0]
    ELSE [sfunc |-> "DCVOLTS", mfunc |-> "DCAMPS",
          v_range |-> 30, i_range |-> 2, delay |-> 10]

\* a cell that runs its next statement whatever the previous one did
MainContinues_Always(st) == st # "running"

\* the cell reaches its next statement only if the call before it
\* returned: an exception ends the cell
MainContinues(st) == st = "returned"

\* the cell is run: its first call is the setup helper with the settings
RunMain ==
    /\ ~Busy
    /\ main' = "setup"
    /\ args' = MainArgs(dev)
    /\ call' = "setup"
    /\ status' = "running"
    /\ pc' = "setup"
    /\ step' = 1
    /\ v_sweep' = <<>>
    /\ currents' = <<>>
    /\ data' = NoData
    /\ stub' = TRUE
    /\ applied' = <<>>
    /\ log' = <<>>
    /\ exc' = "none"
    /\ ret' = None
    /\ UNCHANGED <<dev, resources, session, openExc, inst, kept, shared, conc,
                   side>>

\* the second call of the cell, currents = k2400_iv_sweep(v_sweep); log
\* goes on from the setup call, it holds the commands of the whole cell
MainSweep ==
    /\ main = "setup"
    /\ call = "setup"
    /\ MainContinues(status)
    /\ main' = "sweep"
    /\ \E v \in SweepInputs :
          /\ v_sweep' = v
          /\ pc' = SweepEntry(dev, v)
    /\ call' = "sweep"
    /\ status' = "running"
    /\ step' = 1
    /\ currents' = NewList(<<>>).items
    /\ data' = NoData
    /\ stub' = TRUE
    /\ applied' = <<>>
    /\ exc' = "none"
    /\ ret' = None
    /\ UNCHANGED <<dev, resources, session, openExc, inst, args, log, kept,
                   shared, conc, side>>

NextMain ==
    \/ OpenResource
    \/ RunMain
    \/ SetupWrite
    \/ MainSweep
    \/ SweepEnable
    \/ SweepSetLevel
    \/ SweepMeasure
    \/ SweepDisable

SpecMain == Init /\ [][NextMain]_vars

----------------------------------------------------------------------------
(* Vocabulary of the properties *)

Returned(c) == call = c /\ status = "returned"

Raised(c) == call = c /\ status = "raised"

IsLevelWrite(c) == c.text \in SourceLevel

IsQuery(c) == c.text \in MeasureI

LevelWrites(l) == SelectSeq(l, IsLevelWrite)

Queries(l) == SelectSeq(l, IsQuery)

IsPrefix(a, b) == Len(a) <= Len(b) /\ a = SubSeq(b, 1, Len(a))

\* what a command does, read from its text
Kind(c) ==
    CASE c.text \in OutputOff    -> "disable output"
      [] c.text \in OutputOn     -> "enable output"
      [] c.text \in AutoClearOff -> "disable source auto-clear"
      [] c.text \in SourceFunc   -> "select source function"
      [] c.text \in DisplayFunc  -> "select measurement display mode"
      [] c.text \in RangeV       -> "set voltage range"
      [] c.text \in RangeI       -> "set current range"
      [] c.text \in Delay        -> "set delay"
      [] c.text \in SourceLevel  -> "set source level"
      [] c.text \in MeasureI     -> "measure"

Kinds(l) == [j \in 1..Len(l) |-> Kind(l[j])]

\* some command of l sets what the commands of T set, to the text a
Carries(l, T, a) == \E j \in 1..Len(l) : l[j].text \in T /\ l[j].arg = a

\* the order of the setup writes as the specification states it
StatedSetupOrder ==
    << "disable output", "select source function",
       "select measurement display mode", "set voltage range",
       "set current range", "set delay" >>

\* the order of the setup writes of k2400_setup
K2400SetupOrder ==
    << "disable output", "disable source auto-clear",
       "select source function", "set voltage range", "set current range",
       "set delay" >>

SetupOrder(d) == IF d = "k2400" THEN K2400SetupOrder ELSE StatedSetupOrder

\* float() raises on the response: the 2614B code converts the whole text,
\* the 2400 code every comma-separated field
NotConvertible(d, t) ==
    IF d = "k2400"
    THEN \E f \in 1..Len(Split(t)) : ~IsNumeric(Split(t)[f])
    ELSE ~IsNumeric(t)

\* the configuration of the example scenario: mode VOLT, v_range 2,
\* i_range 0.1, delay 0
ExampleConfigured ==
    /\ inst.func = <<"VOLT">>
    /\ inst.rangev = Str(20)
    /\ inst.rangei = Str(1)
    /\ inst.delay = Str(0)

\* the source-level writes a sweep over v issues when nothing fails
ExpectedLevelWrites(d, v) == [j \in 1..Len(v) |-> LevelCommand(d, v[j])]

NoRepeat(l) == \A a, b \in 1..Len(l) : l[a] = l[b] => a = b

\* what setup configures: auto-clear, source function, measurement display
\* mode, ranges and delay
Config(i) == <<i.autoclear, i.func, i.display, i.rangev, i.rangei, i.delay>>

\* the commands handed to write, as opposed to query / ask
Writes(l) == SelectSeq(l, LAMBDA c : ~IsQuery(c))

\* the place of a kind of write in the setup procedure of instrument d
Place(d, kind) == CHOOSE j \in 1..6 : SetupOrder(d)[j] = kind

----------------------------------------------------------------------------
(* Properties *)

\* C1: a sweep over a non-empty sequence of n set-points that returns (every
\* write and query succeeded, every response parsed) returns a result of
\* exactly n values, on either instrument.
C1_ResultLength ==
    (Returned("sweep") /\ v_sweep # <<>>) => Len(ret) = Len(v_sweep)

C1_Witness ==
    /\ Returned("sweep")
    /\ Len(v_sweep) >= 2
    /\ Len(ret) = Len(v_sweep)

\* C2: in a sweep that returns, the i-th value appended was measured while
\* set-point i was the level last written, the level writes are those of
\* the input in its order, and with a faithful connection result[i] is the
\* current at voltage[i].
C2_ResultOrder ==
    Returned("sweep") =>
        /\ applied = v_sweep
        /\ LevelWrites(log) = [j \in 1..Len(v_sweep) |->
                                   LevelCommand(dev, v_sweep[j])]
        /\ Len(ret) = Len(applied)
        /\ stub => \A j \in 1..Len(ret) : ret[j] = v_sweep[j] \div 1000

C2_Witness ==
    /\ Returned("sweep")
    /\ stub
    /\ Len(v_sweep) = 2
    /\ v_sweep[1] # v_sweep[2]
    /\ ret = <<v_sweep[1] \div 1000, v_sweep[2] \div 1000>>

\* C3: a setup call that returns has issued exactly six writes, the first
\* disables the output, and every parameter the caller passed (source mode,
\* measurement mode, voltage range, current range, delay) is carried with
\* its exact value by one of the commands.
C3_SetupCarriesParameters ==
    Returned("setup") =>
        /\ Len(log) = 6
        /\ Kind(log[1]) = "disable output"
        /\ Carries(log, SourceFunc, <<args.sfunc>>)
        /\ args.mfunc # NoParam => Carries(log, DisplayFunc, <<args.mfunc>>)
        /\ Carries(log, RangeV, Str(args.v_range))
        /\ Carries(log, RangeI, Str(args.i_range))
        /\ Carries(log, Delay, Str(args.delay))

\* C4 as stated: on either instrument the writes of setup are, in order,
\* disable output, select source function, select measurement display mode,
\* set voltage range, set current range, set delay, nothing interleaved.
C4_StatedOrder ==
    call = "setup" =>
        /\ IsPrefix(Kinds(log), StatedSetupOrder)
        /\ status = "returned" => Kinds(log) = StatedSetupOrder

\* C4: the writes of k2614B_setup are, in order, disable output, select
\* source function, select measurement display mode, set voltage range, set
\* current range, set delay; those of k2400_setup are disable output,
\* disable source auto-clear, select source function, set voltage range,
\* set current range, set delay; nothing is interleaved in either.
C4_SetupOrder ==
    call = "setup" =>
        /\ IsPrefix(Kinds(log), SetupOrder(dev))
        /\ status = "returned" => Kinds(log) = SetupOrder(dev)

C4_Witness ==
    /\ Returned("setup")
    /\ dev = "k2400"
    /\ Kinds(log) = K2400SetupOrder

\* C5 as stated: on either instrument an enable-output write precedes the
\* first source-level write and the first measurement query of a sweep.
C5_EnableFirstStated ==
    call = "sweep" =>
        \A j \in 1..Len(log) :
            (IsLevelWrite(log[j]) \/ IsQuery(log[j])) =>
                \E m \in 1..(j - 1) : Kind(log[m]) = "enable output"

\* C5: k2614B_iv_sweep issues an enable-output write as its first command,
\* before its first source-level write and its first measurement query;
\* k2400_iv_sweep issues no enable-output write at all.
C5_EnableFirst ==
    call = "sweep" =>
        /\ dev = "k2614B" =>
               \A j \in 1..Len(log) : Kind(log[j]) = "enable output" <=> j = 1
        /\ dev = "k2400" =>
               \A j \in 1..Len(log) : Kind(log[j]) # "enable output"

C5_Witness ==
    /\ call = "sweep"
    /\ dev = "k2400"
    /\ Len(log) >= 2
    /\ IsLevelWrite(log[1])
    /\ IsQuery(log[2])
    /\ \A j \in 1..Len(log) : Kind(log[j]) # "enable output"

\* C6: a sweep that returns has issued a disable-output write as its last
\* command, after its last measurement query, and the instrument output is
\* off when the caller has the result.
C6_DisableLast ==
    Returned("sweep") =>
        /\ log # <<>>
        /\ Kind(log[Len(log)]) = "disable output"
        /\ \A j \in 1..(Len(log) - 1) : Kind(log[j]) # "disable output"
        /\ inst.output = "OFF"
        /\ ret = currents

C6_Witness ==
    /\ Returned("sweep")
    /\ Len(log) >= 3
    /\ IsQuery(log[Len(log) - 1])
    /\ Kind(log[Len(log)]) = "disable output"
    /\ inst.output = "OFF"

\* C7: when the response to a measurement query is not convertible to a
\* number, the sweep has failed with ValueError and nothing was appended
\* for that step: the result holds one value per earlier query only.
C7_ParseErrorAppendsNothing ==
    (call = "sweep" /\ data # NoData /\ NotConvertible(dev, data)) =>
        /\ status = "raised"
        /\ exc = "ValueError"
        /\ Len(currents) = Len(Queries(log)) - 1
        /\ Len(currents) = step - 1

C7_Witness ==
    /\ Raised("sweep")
    /\ exc = "ValueError"
    /\ data = <<"E", "\n">>
    /\ Len(Queries(log)) = 2
    /\ Len(currents) = 1

\* C8: a sweep over the empty sequence that returns has an empty result,
\* has issued no source-level write and no measurement query, and every
\* write it issued enables or disables the output.
C8_EmptySweep ==
    (Returned("sweep") /\ v_sweep = <<>>) =>
        /\ ret = <<>>
        /\ LevelWrites(log) = <<>>
        /\ Queries(log) = <<>>
        /\ \A j \in 1..Len(log) :
               Kind(log[j]) \in {"enable output", "disable output"}
        /\ Len(log) <= 2

C8_Witness ==
    /\ Returned("sweep")
    /\ v_sweep = <<>>
    /\ ret = <<>>
    /\ Kinds(log) = <<"enable output", "disable output">>

\* C9: after setup with mode VOLT, v_range 2, i_range 0.1, delay 0, on a
\* connection whose every response is the current of a 1 kOhm resistor at
\* the level last written, the sweep over -1.0, -0.5, 0.0, 0.5, 1.0 V
\* returns -0.001, -0.0005, 0.0, 0.0005, 0.001 A.
C9_ExampleScenario ==
    (Returned("sweep") /\ v_sweep = ExampleSweep /\ stub
        /\ ExampleConfigured) => ret = ExampleResult

C9_Witness ==
    /\ Returned("sweep")
    /\ v_sweep = ExampleSweep
    /\ stub
    /\ ExampleConfigured
    /\ ret = ExampleResult

\* C10: when the k-th write of setup fails, the call has raised the
\* communication error and returned nothing, the writes issued are the
\* first k of the procedure and no later one, and the instrument still has
\* what the writes before the k-th set.
C10_SetupFailure ==
    (call = "setup" /\ exc = "VisaIOError") =>
        /\ status = "raised"
        /\ ret = None
        /\ step \in 1..6
        /\ Kinds(log) = SubSeq(SetupOrder(dev), 1, step)
        /\ step > 1 => inst.output = "OFF"
        /\ step > Place(dev, "select source function") =>
               inst.func = <<args.sfunc>>
        /\ step > Place(dev, "set voltage range") =>
               inst.rangev = Str(args.v_range)
        /\ step > Place(dev, "set current range") =>
               inst.rangei = Str(args.i_range)

C10_Witness ==
    /\ Raised("setup")
    /\ exc = "VisaIOError"
    /\ Len(log) = 5
    /\ inst.rangev = Str(args.v_range)
    /\ inst.rangei # Str(args.i_range)
    /\ inst.rangei # Unset

\* C11: a failed write, query or conversion ends the call with its
\* exception and no return value, and nothing is issued twice: setup issues
\* each of its writes at most once, and a sweep issues for each set-point at
\* most one source-level write and at most one measurement query.
C11_NoRetry ==
    /\ exc # "none" => (status = "raised" /\ ret = None)
    /\ (call = "sweep" /\ data # NoData /\ Parse(dev, data).err # "none") =>
           (status = "raised" /\ exc = Parse(dev, data).err)
    /\ call = "setup" => (Len(log) <= 6 /\ NoRepeat(Kinds(log)))
    /\ call = "sweep" =>
           /\ IsPrefix(LevelWrites(log), ExpectedLevelWrites(dev, v_sweep))
           /\ Len(LevelWrites(log)) <= Len(currents) + 1
           /\ Len(Queries(log)) <= Len(currents) + 1
           /\ Len(Queries(log)) <= Len(LevelWrites(log))

C11_Witness ==
    /\ Raised("sweep")
    /\ exc = "VisaIOError"
    /\ Len(v_sweep) = 2
    /\ v_sweep[1] = v_sweep[2]
    /\ Len(LevelWrites(log)) = 2
    /\ Len(Queries(log)) = 2
    /\ Len(currents) = 1

\* C12: a step of a sweep that fails at a source-level write, at a query
\* or at the conversion of a response ends the call without a disable-output
\* write, and leaves the output on if it was on; so a sweep call can have
\* ended with the instrument output still enabled (the witness).
C12_NoDisableOnFailure ==
    [][ (call = "sweep" /\ status = "running" /\ status' = "raised"
            /\ pc \in {"level", "measure"}) =>
        /\ \A j \in 1..Len(log') : Kind(log'[j]) # "disable output"
        /\ inst.output = "ON" => inst'.output = "ON" ]_vars

C12_Witness ==
    /\ Raised("sweep")
    /\ exc \in {"VisaIOError", "ValueError"}
    /\ Len(currents) >= 1
    /\ \A j \in 1..Len(log) : Kind(log[j]) # "disable output"
    /\ inst.output = "ON"

\* C13: the session, once opened, is the first address list_resources
\* returned; with an empty list the open_resource cell fails with
\* IndexError and the session variable stays undefined.
C13_FirstAddress ==
    /\ session # "undefined" =>
           (resources # <<>> /\ session = resources[1] /\ openExc = "none")
    /\ resources = <<>> => session = "undefined"
    /\ openExc # "none" =>
           (openExc = "IndexError" /\ resources = <<>>
              /\ session = "undefined")

C13_Witness ==
    /\ Len(resources) = 2
    /\ resources[1] # resources[2]
    /\ session = resources[1]

\* C15: in a sweep that returns, the commands between enable and disable
\* alternate strictly: the write of set-point 1, a query, the write of
\* set-point 2, a query, and so on, one query per set-point, each query
\* right after the write of its set-point.
C15_Alternation ==
    Returned("sweep") =>
        LET body == SelectSeq(log, LAMBDA c : IsLevelWrite(c) \/ IsQuery(c))
        IN  /\ Len(body) = 2 * Len(v_sweep)
            /\ \A j \in 1..Len(v_sweep) :
                   /\ body[2 * j - 1] = LevelCommand(dev, v_sweep[j])
                   /\ body[2 * j] = MeasureCommand(dev)
            /\ \A j \in 1..Len(log) :
                   IsQuery(log[j]) => (j > 1 /\ IsLevelWrite(log[j - 1]))
            /\ \A j \in 1..(Len(log) - 1) :
                   IsLevelWrite(log[j]) => IsQuery(log[j + 1])

C15_Witness ==
    /\ Returned("sweep")
    /\ dev = "k2614B"
    /\ Len(v_sweep) = 2
    /\ Kinds(log) = << "enable output", "set source level", "measure",
                       "set source level", "measure", "disable output" >>

\* C17: when a sweep fails at set-point k it has ended: the caller has the
\* exception and no result, not even a partial one, and no source-level
\* write or query was issued for a set-point after the k-th.
C17_AbortOnFailure ==
    Raised("sweep") =>
        /\ exc # "none"
        /\ ret = None
        /\ pc = "idle"
        /\ step = Len(currents) + 1
        /\ Len(LevelWrites(log)) <= step
        /\ Len(Queries(log)) <= step
        /\ IsPrefix(LevelWrites(log), ExpectedLevelWrites(dev, v_sweep))

C17_Witness ==
    /\ Raised("sweep")
    /\ v_sweep = ExampleSweep
    /\ step = 2
    /\ Len(currents) = 1
    /\ Len(LevelWrites(log)) = 2
    /\ Len(Queries(log)) = 2
    /\ ret = None

\* C19: setup validates nothing: it never raises an error of its own, and
\* a setup call that returns has issued all six writes, each carrying the
\* value passed for it (source mode, measurement mode, ranges, delay)
\* exactly as passed, whatever the values.
C19_NoValidation ==
    call = "setup" =>
        /\ exc \in {"none", "VisaIOError", "NameError"}
        /\ status = "returned" =>
               /\ Len(log) = 6
               /\ \A j \in 1..6 :
                      /\ log[j].text \in SourceFunc =>
                             log[j].arg = <<args.sfunc>>
                      /\ (log[j].text \in DisplayFunc
                            /\ args.mfunc # NoParam) =>
                             log[j].arg = <<args.mfunc>>
                      /\ log[j].text \in RangeV =>
                             Float(log[j].arg) = args.v_range
                      /\ log[j].text \in RangeI =>
                             Float(log[j].arg) = args.i_range
                      /\ log[j].text \in Delay =>
                             Float(log[j].arg) = args.delay

\* C14: in the main cell the six setup writes come first, in their order,
\* and every source-level write and every query comes after them; when
\* the setup call raised, the cell has issued no source-level write and no
\* query and the sweep helper was not called.
C14_SetupBeforeSweep ==
    /\ main = "sweep" =>
           /\ call = "sweep"
           /\ Len(log) >= 6
           /\ Kinds(SubSeq(log, 1, 6)) = SetupOrder(dev)
           /\ \A j \in 1..Len(log) :
                  (IsLevelWrite(log[j]) \/ IsQuery(log[j])) => j > 6
    /\ (main = "setup" /\ status = "raised") =>
           /\ call = "setup"
           /\ v_sweep = <<>>
           /\ \A j \in 1..Len(log) :
                  ~IsLevelWrite(log[j]) /\ ~IsQuery(log[j])
    /\ (main # "none" /\ call = "sweep") => main = "sweep"

C14_Witness ==
    /\ main = "sweep"
    /\ Returned("sweep")
    /\ Len(v_sweep) = 2
    /\ Len(log) > 6
    /\ IsLevelWrite(log[7]) \/ IsLevelWrite(log[8])

\* C20: while no session exists (the open_resource cell failed, or was
\* not run), the setup call of the main cell fails at its first write with
\* NameError, no command has been handed to a session, the instrument is
\* untouched, and the sweep helper is not called.
C20_NoSession ==
    session = "undefined" =>
        /\ log = <<>>
        /\ inst = InitInst
        /\ main # "sweep"
        /\ call # "sweep"
        /\ call = "setup" =>
               /\ step = 1
               /\ status \in {"running", "raised"}
               /\ status = "raised" => exc = "NameError"

C20_Witness ==
    /\ dev = "k2400"
    /\ openExc = "IndexError"
    /\ session = "undefined"
    /\ main = "setup"
    /\ Raised("setup")
    /\ exc = "NameError"
    /\ log = <<>>

\* C18: a sweep called after an earlier sweep returned starts from an
\* empty list and, when it returns, its result holds one measurement per
\* set-point of this call, each taken under this call's set-point; the
\* list the earlier call returned, which the caller still holds, is never
\* changed by it.
C18_FreshResult ==
    [][ /\ (kept = None /\ kept' # None) => currents' = <<>>
        /\ (kept # None /\ kept' # None) => kept' = kept
        /\ (kept' # None /\ status' = "returned") =>
               /\ Len(ret') = Len(v_sweep')
               /\ applied' = v_sweep' ]_vars

C18_Witness ==
    /\ kept # None
    /\ Returned("sweep")
    /\ Len(kept) = 2
    /\ Len(ret) = 1
    /\ ret[1] # kept[1]

\* C16: a measurement recorded at result[i] is certain to be taken under
\* the sweep's own i-th set-point, and with the output the sweep enabled
\* still on, only while no step of one sweep fell inside the other sweep.
\* The witness is an interleaving where a sweep has recorded a measurement
\* taken under the other sweep's voltage and is about to measure again
\* after the other sweep's disable-output write took effect.
C16_SafeOnlyWhenExclusive ==
    (call = "threads" /\ ~conc.overlap) =>
        \A t \in Threads :
            LET r == conc.thr[t]
            IN  /\ \A i \in 1..Len(r.applied) :
                       r.applied[i] = r.v_sweep[i]
                /\ \A i \in 1..Len(r.currents) :
                       r.currents[i] = r.v_sweep[i] \div 1000
                /\ (dev = "k2614B" /\ r.pc = "measure") =>
                       inst.output = "ON"

C16_Witness ==
    /\ call = "threads"
    /\ dev = "k2614B"
    /\ conc.thr[1].pc = "done"
    /\ conc.thr[2].pc = "measure"
    /\ inst.output = "OFF"
    /\ Len(conc.thr[2].currents) = 1
    /\ conc.thr[2].applied[1] # conc.thr[2].v_sweep[1]
    /\ conc.thr[2].currents[1] = conc.thr[1].v_sweep[1] \div 1000

\* C21: in a run of setup and sweep calls where nothing fails, the output
\* is on only while a sweep call is running, and it is off in every state
\* after a setup call returned and after a sweep call returned.
C21_OutputOnlyDuringSweep ==
    /\ inst.output = "ON" => (call = "sweep" /\ status = "running")
    /\ status = "returned" => inst.output = "OFF"

C21_Witness ==
    /\ Returned("sweep")
    /\ Len(ret) = 2
    /\ inst.level # 0
    /\ inst.func # Unset
    /\ inst.output = "OFF"

\* C22: a setup call that finds the output on (a sweep failed and left it
\* so) can only be at its first write, and that write, when it succeeds,
\* is the disable-output write and turns the output off; every later
\* write of setup (source function, ranges, delay) is issued with the
\* output off.
C22_DisableBeforeConfigure ==
    /\ [](call = "setup" =>
             /\ step > 1 => inst.output = "OFF"
             /\ Len(log) >= 1 => Kind(log[1]) = "disable output"
             /\ Len(log) > 1 => step > 1)
    /\ [][ (call = "setup" /\ status = "running" /\ inst.output = "ON") =>
              /\ step = 1
              /\ log = <<>>
              /\ status' = "running" =>
                     /\ inst'.output = "OFF"
                     /\ Kinds(log') = << "disable output" >> ]_vars

C22_Witness ==
    /\ call = "setup"
    /\ status = "running"
    /\ step = 1
    /\ inst.output = "ON"
    /\ inst.level # 0

\* C23: a sweep over n set-points that returns has issued exactly n
\* queries and n source-level writes, and n + 2 writes in all on k2614B
\* (enable and disable output), n + 1 on k2400 (disable output only); and a
\* running sweep, whose calls all come back, always ends.
C23_CountsAndTermination ==
    /\ [](Returned("sweep") =>
             /\ Len(Queries(log)) = Len(v_sweep)
             /\ Len(LevelWrites(log)) = Len(v_sweep)
             /\ Len(Writes(log)) =
                    Len(v_sweep) + (IF dev = "k2614B" THEN 2 ELSE 1))
    /\ ((call = "sweep" /\ status = "running") ~> (status # "running"))

C23_Witness ==
    /\ Returned("sweep")
    /\ dev = "k2614B"
    /\ v_sweep = ExampleSweep
    /\ Len(Queries(log)) = 5
    /\ Len(Writes(log)) = 7

\* C24: of the last response a sweep got, k2400_iv_sweep appends the
\* second comma-separated field; it raises ValueError and appends nothing
\* when any field is non-numeric, the second being numeric or not, and
\* IndexError when all fields are numeric but there are fewer than two.
\* k2614B_iv_sweep appends the whole response converted as one number, and
\* raises ValueError when the whole is not a number.
C24_ResponseFormats ==
    (call = "sweep" /\ data # NoData) =>
        LET fields == Split(data)
            bad == \E f \in 1..Len(fields) : ~IsNumeric(fields[f])
            failed(e) == /\ status = "raised"
                         /\ exc = e
                         /\ Len(currents) = Len(Queries(log)) - 1
            appended(x) == /\ currents # <<>>
                           /\ currents[Len(currents)] = x
                           /\ exc \in {"none", "VisaIOError"}
        IN  /\ (dev = "k2400" /\ bad) => failed("ValueError")
            /\ (dev = "k2400" /\ ~bad /\ Len(fields) < 2) =>
                   failed("IndexError")
            /\ (dev = "k2400" /\ ~bad /\ Len(fields) >= 2) =>
                   appended(Float(fields[2]))
            /\ (dev = "k2614B" /\ IsNumeric(data)) => appended(Float(data))
            /\ (dev = "k2614B" /\ ~IsNumeric(data)) => failed("ValueError")

C24_Witness ==
    /\ Raised("sweep")
    /\ dev = "k2400"
    /\ exc = "ValueError"
    /\ data = << "x", ",", "8", "\n" >>
    /\ Len(currents) = 1
    /\ Len(Queries(log)) = 2

\* C25: a sweep issues only enable-output, source-level, measure and
\* disable-output commands; no step of a sweep call changes what setup
\* configured on the instrument (source function, display mode, ranges,
\* delay, auto-clear), and none changes the voltage sequence passed in.
C25_SweepFrame ==
    /\ [](call = "sweep" =>
             \A j \in 1..Len(log) :
                Kind(log[j]) \in { "enable output", "set source level",
                                   "measure", "disable output" })
    /\ [][ (call = "sweep" /\ status = "running") =>
              /\ Config(inst') = Config(inst)
              /\ v_sweep' = v_sweep ]_vars
    /\ [][ (call' = "sweep" /\ status' = "running") =>
              Config(inst') = Config(inst) ]_vars

C25_Witness ==
    /\ Returned("sweep")
    /\ dev = "k2400"
    /\ Len(ret) = 2
    /\ v_sweep = << -500000, 1000000 >>
    /\ inst.level = 1000000
    /\ Config(inst) = << "OFF", <<"VOLT">>, Unset, Str(30), Str(2), Str(10) >>

\* C26: when a sweep over a non-empty sequence has returned, the source
\* level is its last set-point; setup writes no source level; and the
\* level changes in no step other than a sweep's source-level write, so
\* it keeps that value through later setup calls until the next sweep
\* writes its first set-point.
C26_LevelStays ==
    /\ []((Returned("sweep") /\ v_sweep # <<>>) =>
             inst.level = v_sweep[Len(v_sweep)])
    /\ [](call = "setup" => \A j \in 1..Len(log) : ~IsLevelWrite(log[j]))
    /\ [][ inst'.level # inst.level =>
              /\ call = "sweep"
              /\ status = "running"
              /\ pc = "level"
              /\ inst'.level = v_sweep[step] ]_vars

C26_Witness ==
    /\ Returned("setup")
    /\ inst.level = 1000000
    /\ inst.output = "OFF"
    /\ inst.func # Unset

\* C27 as stated: when both helpers, run side by side on the same
\* sequence, have returned, their results are equal and they have issued
\* the same sequence of abstract commands: enable output, then set level
\* and measure for each set-point, then disable output.
C27_StatedEquivalence ==
    SideDone =>
        /\ side.nb["k2400"].currents = side.nb["k2614B"].currents
        /\ Kinds(side.nb["k2400"].log) = Kinds(side.nb["k2614B"].log)

\* C27: when both helpers, run side by side on the same sequence, have
\* returned, their results are equal, and the abstract commands of
\* k2614B_iv_sweep are enable output followed by those of k2400_iv_sweep,
\* which issues no enable-output command: set level and measure for each
\* set-point, then disable output.
C27_EquivalenceButEnable ==
    SideDone =>
        /\ side.nb["k2400"].currents = side.nb["k2614B"].currents
        /\ Len(side.nb["k2400"].currents) = Len(side.v_sweep)
        /\ Kinds(side.nb["k2614B"].log) =
               << "enable output" >> \o Kinds(side.nb["k2400"].log)
        /\ \A j \in 1..Len(side.nb["k2400"].log) :
               Kind(side.nb["k2400"].log[j]) # "enable output"

C27_Witness ==
    /\ SideDone
    /\ side.v_sweep = ExampleSweep
    /\ side.nb["k2400"].currents = ExampleResult
    /\ side.nb["k2614B"].currents = ExampleResult
    /\ Len(side.nb["k2400"].log) = 11
    /\ Len(side.nb["k2614B"].log) = 12

====
